---- MODULE Spec2Model ----
(***************************************************************************)
(* Model of the layout resource handlers of chronograf                      *)
(* (src/server/layout.go): ValidLayoutRequest, newLayoutResponse and the    *)
(* five HTTP handlers NewLayout, Layouts, LayoutsID, RemoveLayout and       *)
(* UpdateLayout, run against an external layouts/organizations store.       *)
(*                                                                         *)
(* Four specifications share the module:                                    *)
(*   SpecValid  applies ValidLayoutRequest to bounded layouts               *)
(*   SpecResp   applies newLayoutResponse to bounded layouts                *)
(*   SpecList   runs the Layouts handler on bounded store collections       *)
(*   Spec       runs two concurrent requests, one atomic step per store call*)
(***************************************************************************)
EXTENDS Integers, Sequences, FiniteSets, TLC

VARIABLES
    store,       \* Spec: the layouts store, a function from the stored IDs to layouts
    reqs,        \* Spec: per request slot, the request and the handler's position
    lastUpdate,  \* Spec: per ID, the request whose store Update succeeded last (history)
    vArgs,       \* SpecValid: the arguments of ValidLayoutRequest
    vRet,        \* SpecValid: its result
    rArg,        \* SpecResp: the argument of newLayoutResponse
    rRet,        \* SpecResp: its result
    lArgs,       \* SpecList: the query parameters and the collection All returns
    lRet         \* SpecList: the response of Layouts

vars == <<store, reqs, lastUpdate, vArgs, vRet, rArg, rRet, lArgs, lRet>>

-----------------------------------------------------------------------------
(* Bounds *)

MaxCells == 2        \* cells per layout in SpecValid
MaxQueries == 1      \* queries per cell in SpecValid
RespMaxCells == 2    \* cells per layout in SpecResp
MaxColl == 3         \* layouts in the collection All returns in SpecList
MaxTerms == 1        \* values per query-string facet in SpecList

-----------------------------------------------------------------------------
(* Data: chronograf.Layout, Cell, Query, Axis as the handlers use them *)

SeqsUpTo(S, n) == UNION {[1..k -> S] : k \in 0..n}

\* A Go map[string]Axis: nil or not, and its key/value pairs.
NilAxes == [isnil |-> TRUE, kv |-> [k \in {} |-> [Bounds |-> <<>>]]]

MkAxes(f) == [isnil |-> FALSE, kv |-> f]

MkCell(w, h, qs, ax) == [W |-> w, H |-> h, Queries |-> qs, Axes |-> ax]

MkLayout(id, app, meas, org, cells) ==
    [ID |-> id, Application |-> app, Measurement |-> meas,
     Organization |-> org, Cells |-> cells]

\* The zero value chronograf.Layout{}.
ZeroLayout == MkLayout("", "", "", "", <<>>)

NoErr == "nil"
ErrRequired == "app, measurement, and cells required"
ErrWH == "w, and h required"
ErrQuery == "query required"

-----------------------------------------------------------------------------
(* ValidLayoutRequest, layout.go:207-227 *)

\* The inner loop over c.Queries (lines 220-224), from query i on.
RECURSIVE QueriesErr(_, _)
QueriesErr(qs, i) ==
    IF i > Len(qs) THEN NoErr
    ELSE IF qs[i].Command = "" THEN ErrQuery
    ELSE QueriesErr(qs, i + 1)

\* Variant: all W/H checks run before any query check.
RECURSIVE AllWHErr(_, _)
AllWHErr(cells, i) ==
    IF i > Len(cells) THEN NoErr
    ELSE IF cells[i].W = 0 \/ cells[i].H = 0 THEN ErrWH
    ELSE AllWHErr(cells, i + 1)

RECURSIVE AllQueriesErr(_, _)
AllQueriesErr(cells, i) ==
    IF i > Len(cells) THEN NoErr
    ELSE LET e == QueriesErr(cells[i].Queries, 1)
         IN  IF e # NoErr THEN e ELSE AllQueriesErr(cells, i + 1)

CellsErr_WHFirst(cells, i) ==
    LET e == AllWHErr(cells, i)
    IN  IF e # NoErr THEN e ELSE AllQueriesErr(cells, i)

\* The outer loop over l.Cells (lines 216-225), from cell i on.
RECURSIVE CellsErr(_, _)
CellsErr(cells, i) ==
    IF i > Len(cells) THEN NoErr
    ELSE IF cells[i].W = 0 \/ cells[i].H = 0 THEN ErrWH
    ELSE LET e == QueriesErr(cells[i].Queries, 1)
         IN  IF e # NoErr THEN e ELSE CellsErr(cells, i + 1)

\* Variant: a layout without organization is rejected instead of defaulted.
ValidLayoutRequest_OrgRequired(l, defaultOrgID) ==
    IF l.Application = "" \/ l.Measurement = "" \/ Len(l.Cells) = 0
    THEN ErrRequired
    ELSE IF l.Organization = "" THEN ErrRequired
    ELSE CellsErr(l.Cells, 1)

ValidLayoutRequest(l, defaultOrgID) ==
    IF l.Application = "" \/ l.Measurement = "" \/ Len(l.Cells) = 0
    THEN ErrRequired
    ELSE LET lc == IF l.Organization = ""
                   THEN [l EXCEPT !.Organization = defaultOrgID]
                   ELSE l
         IN  CellsErr(lc.Cells, 1)

-----------------------------------------------------------------------------
(* SpecValid: ValidLayoutRequest on bounded inputs *)

Dims == {0, 1}
Commands == {"", "SELECT 1"}
ValidQueries == SeqsUpTo([Command : Commands], MaxQueries)
ValidCells == {MkCell(w, h, qs, NilAxes) : w \in Dims, h \in Dims, qs \in ValidQueries}
\* The layouts of at most n cells.
ValidLayouts(n) ==
    {MkLayout("", app, meas, org, cells) :
        app \in {"", "app1"}, meas \in {"", "m1"}, org \in {"", "7"},
        cells \in SeqsUpTo(ValidCells, n)}
DefaultOrgIDs == {"0", "1"}

ValidIdle ==
    /\ vArgs = [l |-> ZeroLayout, defaultOrgID |-> "0"]
    /\ vRet = [done |-> FALSE]

\* The call ValidLayoutRequest(l, defaultOrgID) and its returned error.
Validate ==
    /\ ~vRet.done
    /\ vRet' = [done |-> TRUE, err |-> ValidLayoutRequest(vArgs.l, vArgs.defaultOrgID)]
    /\ UNCHANGED <<store, reqs, lastUpdate, vArgs, rArg, rRet, lArgs, lRet>>

-----------------------------------------------------------------------------
(* newLayoutResponse, layout.go:22-50 *)

AxisNames == <<"x", "y", "y2">>
EmptyAxis == [Bounds |-> <<>>]
httpAPILayouts == "/chronograf/v1/layouts"

\* Variant: every well-known axis is reset, whether found or not.
RepairAxes_Overwrite(ax) ==
    LET named == {AxisNames[i] : i \in 1..Len(AxisNames)}
    IN  MkAxes([k \in DOMAIN ax.kv \cup named |->
                   IF k \in named THEN EmptyAxis ELSE ax.kv[k]])

\* The body of the loop over layout.Cells (lines 28-40) on one cell's Axes:
\* cell is the loop's copy of the cell, layout.Cells[idx] the cell written to.
\* A nil map is replaced in layout.Cells[idx] only, so the lookups in
\* cell.Axes then all miss; a non-nil map is shared by both.
RepairAxes(ax) ==
    LET target == IF ax.isnil THEN [k \in {} |-> EmptyAxis] ELSE ax.kv
        missing == {AxisNames[i] : i \in {j \in 1..Len(AxisNames) :
                                            AxisNames[j] \notin DOMAIN ax.kv}}
    IN  MkAxes([k \in DOMAIN target \cup missing |->
                   IF k \in missing THEN EmptyAxis ELSE target[k]])

newLayoutResponse(layout) ==
    [Layout |-> [layout EXCEPT !.Cells =
                    [idx \in 1..Len(layout.Cells) |->
                        [layout.Cells[idx] EXCEPT !.Axes = RepairAxes(@)]]],
     Link |-> [Href |-> httpAPILayouts \o "/" \o layout.ID, Rel |-> "self"]]

-----------------------------------------------------------------------------
(* SpecResp: newLayoutResponse on bounded inputs *)

AxisKeys == {"x", "y", "y2", "z"}
AxisVals == {EmptyAxis, [Bounds |-> <<"0", "10">>]}
RespAxes ==
    {NilAxes} \cup UNION {{MkAxes(f) : f \in [S -> AxisVals]} : S \in SUBSET AxisKeys}
RespCells == {MkCell(1, 1, <<>>, ax) : ax \in RespAxes}
\* The layouts of at most n cells.
RespLayouts(n) ==
    {MkLayout("1", "app1", "m1", "", cells) : cells \in SeqsUpTo(RespCells, n)}

RespIdle ==
    /\ rArg = ZeroLayout
    /\ rRet = [done |-> FALSE]

\* The call newLayoutResponse(layout) and its returned layoutResponse.
BuildResponse ==
    /\ ~rRet.done
    /\ rRet' = [done |-> TRUE, res |-> newLayoutResponse(rArg)]
    /\ UNCHANGED <<store, reqs, lastUpdate, vArgs, vRet, rArg, lArgs, lRet>>

-----------------------------------------------------------------------------
(* Responses written through w: the helper called and what it was given *)

RespError(status, msg) == [call |-> "Error", status |-> status, msg |-> msg]
RespInvalidJSON == [call |-> "invalidJSON"]
RespInvalidData(err) == [call |-> "invalidData", err |-> err]
RespUnknownError(msg) == [call |-> "unknownErrorWithMessage", msg |-> msg]
RespJSON(status, body) == [call |-> "encodeJSON", status |-> status, body |-> body]
RespCreated(res) ==
    [call |-> "encodeJSON", status |-> 201, body |-> res, location |-> res.Link.Href]
RespNoContent == [call |-> "WriteHeader", status |-> 204]

-----------------------------------------------------------------------------
(* Layouts, layout.go:89-133 *)

\* The filter sieve built from both query-string facets (lines 91-98).
FilterTerms(app, measurement) ==
    {app[i] : i \in 1..Len(app)} \cup {measurement[i] : i \in 1..Len(measurement)}

\* Variant: an empty sieve accepts nothing.
filter_NoPassAll(filtered, layout) ==
    layout.Measurement \in filtered \/ layout.Application \in filtered

\* The closure filter (lines 107-115).
filter(filtered, layout) ==
    IF Cardinality(filtered) = 0 THEN TRUE
    ELSE layout.Measurement \in filtered \/ layout.Application \in filtered

\* res.Layouts = append(res.Layouts, newLayoutResponse(layout)) (line 129).
Emit(acc, layout) == Append(acc, newLayoutResponse(layout))

\* The loop over layouts (lines 121-131), from layout i on. seen is read at
\* line 124 and written nowhere, so it is passed on as it is.
RECURSIVE SelectLoop(_, _, _, _, _)
SelectLoop(layouts, i, seen, filtered, acc) ==
    IF i > Len(layouts) THEN acc
    ELSE IF (layouts[i].Measurement \o layouts[i].ID) \in seen
         THEN SelectLoop(layouts, i + 1, seen, filtered, acc)
         ELSE SelectLoop(layouts, i + 1, seen, filtered,
                         IF filter(filtered, layouts[i])
                         THEN Emit(acc, layouts[i])
                         ELSE acc)

\* The handler from the result of Store.Layouts(ctx).All (layouts, ok) on.
Layouts(app, measurement, layouts, ok) ==
    IF ~ok THEN RespError(500, "Error loading layouts")
    ELSE RespJSON(200, [Layouts |->
             SelectLoop(layouts, 1, {}, FilterTerms(app, measurement), <<>>)])

-----------------------------------------------------------------------------
(* SpecList: the Layouts handler on bounded collections *)

ListTerms == {"a", "m"}
ListLayouts ==
    {MkLayout(id, app, meas, "0", <<MkCell(1, 1, <<>>, NilAxes)>>) :
        id \in {"1", "11"}, app \in {"a", "b"}, meas \in {"m", "m1"}}

ListIdle ==
    /\ lArgs = [app |-> <<>>, measurement |-> <<>>, layouts |-> <<>>]
    /\ lRet = [done |-> FALSE]

\* One list request: All answers with lArgs.layouts or fails.
ListRequest ==
    /\ ~lRet.done
    /\ \E ok \in BOOLEAN :
          lRet' = [done |-> TRUE, ok |-> ok,
                   resp |-> Layouts(lArgs.app, lArgs.measurement, lArgs.layouts, ok)]
    /\ UNCHANGED <<store, reqs, lastUpdate, vArgs, vRet, rArg, rRet, lArgs>>

-----------------------------------------------------------------------------
(* The external store: Store.Layouts() and Store.Organizations() *)

IDOrder == <<"1", "2">>
StoreIDs == {IDOrder[i] : i \in 1..Len(IDOrder)}
EmptyStore == [i \in {} |-> ZeroLayout]

\* All: the stored layouts, in the order of IDOrder.
RECURSIVE StoreAllFrom(_, _)
StoreAllFrom(st, i) ==
    IF i > Len(IDOrder) THEN <<>>
    ELSE (IF IDOrder[i] \in DOMAIN st THEN <<st[IDOrder[i]]>> ELSE <<>>)
         \o StoreAllFrom(st, i + 1)

StoreAll(st) == StoreAllFrom(st, 1)

\* Update (and the write of Add): the layout replaces what is stored under its ID.
StorePut(st, l) ==
    [i \in DOMAIN st \cup {l.ID} |-> IF i = l.ID THEN l ELSE st[i]]

\* Delete: nothing is stored under the ID afterwards.
StoreDelete(st, id) == [i \in DOMAIN st \ {id} |-> st[i]]

\* Get succeeds only for a stored ID (and may fail for one).
GetOutcomes(st, id) == IF id \in DOMAIN st THEN BOOLEAN ELSE {FALSE}

\* Add succeeds only while the store can assign a fresh ID.
AddOutcomes(st) == IF StoreIDs \ DOMAIN st # {} THEN BOOLEAN ELSE {FALSE}

OrgIDs == {0, 7}

\* fmt.Sprintf("%d", defaultOrg.ID) (lines 68, 191).
RECURSIVE FormatInt(_)
FormatInt(n) ==
    LET digit == <<"0", "1", "2", "3", "4", "5", "6", "7", "8", "9">>[(n % 10) + 1]
    IN  IF n < 10 THEN digit ELSE FormatInt(n \div 10) \o digit

-----------------------------------------------------------------------------
(* Spec: requests and their bodies *)

Reqs == {"r1", "r2"}

MalformedBody == [json |-> FALSE, layout |-> ZeroLayout]
JSONBody(l) == [json |-> TRUE, layout |-> l]

OneQuery == <<[Command |-> "SELECT 1"]>>
BodyA == MkLayout("", "app1", "m9", "", <<MkCell(1, 1, OneQuery, NilAxes)>>)
BodyB ==
    MkLayout("2", "app2", "m2", "7",
             <<MkCell(2, 2, <<>>, MkAxes([k \in {"x"} |-> [Bounds |-> <<"0", "10">>]]))>>)
BodyNoCells == MkLayout("1", "app1", "m1", "", <<>>)
BodyZeroW == MkLayout("", "app1", "m1", "", <<MkCell(0, 1, OneQuery, NilAxes)>>)
Bodies ==
    {MalformedBody, JSONBody(BodyA), JSONBody(BodyB), JSONBody(BodyNoCells),
     JSONBody(BodyZeroW)}

NoQuery == [app |-> <<>>, measurement |-> <<>>]
ReqQueries == {NoQuery, [app |-> <<"app1">>, measurement |-> <<>>],
            [app |-> <<>>, measurement |-> <<"m2">>]}

StoredA == MkLayout("1", "app1", "m1", "0", <<MkCell(1, 1, OneQuery, NilAxes)>>)
StoredB ==
    MkLayout("2", "app2", "m2", "0",
             <<MkCell(1, 1, OneQuery, MkAxes([k \in {"y"} |-> [Bounds |-> <<"1">>]]))>>)
InitStores ==
    {EmptyStore, [i \in {"1"} |-> StoredA],
     [i \in {"1", "2"} |-> IF i = "1" THEN StoredA ELSE StoredB]}

\* What a request is given: the route, the path parameter id, the body and
\* the query string.
ReqInputs ==
    {[op |-> "NewLayout", id |-> "", body |-> b, query |-> NoQuery] : b \in Bodies}
    \cup {[op |-> "Layouts", id |-> "", body |-> MalformedBody, query |-> q] : q \in ReqQueries}
    \cup {[op |-> o, id |-> i, body |-> MalformedBody, query |-> NoQuery] :
             o \in {"LayoutsID", "RemoveLayout"}, i \in StoreIDs}
    \cup {[op |-> "UpdateLayout", id |-> i, body |-> b, query |-> NoQuery] :
             i \in StoreIDs, b \in Bodies}

FirstStep(op) ==
    CASE op = "NewLayout" -> "new_org"
      [] op = "Layouts" -> "list"
      [] op = "LayoutsID" -> "get"
      [] op = "RemoveLayout" -> "remove"
      [] op = "UpdateLayout" -> "upd_get"

IdleReq ==
    [pc |-> "idle", op |-> "", id |-> "", body |-> MalformedBody, query |-> NoQuery,
     req |-> ZeroLayout, org |-> "", calls |-> <<>>, resp |-> <<>>]

MainIdle ==
    /\ store = EmptyStore
    /\ reqs = [r \in Reqs |-> IdleReq]
    /\ lastUpdate = [i \in StoreIDs |-> "none"]

StoreCall(name, ok, arg) == [call |-> name, ok |-> ok, arg |-> arg]

\* The handler returns after writing resp, having made the store calls cs.
Return(r, cs, resp) ==
    reqs' = [reqs EXCEPT ![r].pc = "done",
                         ![r].calls = @ \o cs,
                         ![r].resp = Append(@, resp)]

Others == <<vArgs, vRet, rArg, rRet, lArgs, lRet>>

\* The router hands a request to its handler.
Receive(r) ==
    /\ reqs[r].pc = "idle"
    /\ \E in \in ReqInputs :
          reqs' = [reqs EXCEPT ![r].pc = FirstStep(in.op), ![r].op = in.op,
                               ![r].id = in.id, ![r].body = in.body,
                               ![r].query = in.query]
    /\ UNCHANGED <<store, lastUpdate, Others>>

-----------------------------------------------------------------------------
(* NewLayout, layout.go:53-82 *)

\* Lines 54-66: decode the body, then look up the default organization.
NewLayoutDecode(r) ==
    /\ reqs[r].pc = "new_org"
    /\ IF ~reqs[r].body.json
       THEN Return(r, <<>>, RespInvalidJSON)
       ELSE \E ok \in BOOLEAN, org \in OrgIDs :
               IF ~ok
               THEN Return(r, <<StoreCall("DefaultOrganization", FALSE, "")>>,
                           RespUnknownError("DefaultOrganization"))
               ELSE reqs' = [reqs EXCEPT
                       ![r].pc = "new_add",
                       ![r].req = reqs[r].body.layout,
                       ![r].org = FormatInt(org),
                       ![r].calls = Append(@, StoreCall("DefaultOrganization", TRUE, ""))]
    /\ UNCHANGED <<store, lastUpdate, Others>>

\* Variant: the layout is added without being validated.
NewLayoutAdd_NoValidate(r) ==
    /\ reqs[r].pc = "new_add"
    /\ \E ok \in AddOutcomes(store) :
          IF ~ok
          THEN /\ Return(r, <<StoreCall("Add", FALSE, reqs[r].req)>>,
                         RespUnknownError("Error storing layout"))
               /\ UNCHANGED store
          ELSE \E id \in StoreIDs \ DOMAIN store :
                  LET stored == [reqs[r].req EXCEPT !.ID = id]
                  IN  /\ store' = StorePut(store, stored)
                      /\ Return(r, <<StoreCall("Add", TRUE, reqs[r].req)>>,
                                RespCreated(newLayoutResponse(stored)))
    /\ UNCHANGED <<lastUpdate, Others>>

\* Lines 68-81: validate, add to the store, answer 201 with the stored layout.
NewLayoutAdd(r) ==
    /\ reqs[r].pc = "new_add"
    /\ LET err == ValidLayoutRequest(reqs[r].req, reqs[r].org)
       IN  IF err # NoErr
           THEN /\ Return(r, <<>>, RespInvalidData(err))
                /\ UNCHANGED store
           ELSE \E ok \in AddOutcomes(store) :
                   IF ~ok
                   THEN /\ Return(r, <<StoreCall("Add", FALSE, reqs[r].req)>>,
                                  RespUnknownError("Error storing layout"))
                        /\ UNCHANGED store
                   ELSE \E id \in StoreIDs \ DOMAIN store :
                           LET stored == [reqs[r].req EXCEPT !.ID = id]
                           IN  /\ store' = StorePut(store, stored)
                               /\ Return(r, <<StoreCall("Add", TRUE, reqs[r].req)>>,
                                         RespCreated(newLayoutResponse(stored)))
    /\ UNCHANGED <<lastUpdate, Others>>

-----------------------------------------------------------------------------
(* Layouts (89-133), LayoutsID (136-148), RemoveLayout (151-165) as requests *)

LayoutsAll(r) ==
    /\ reqs[r].pc = "list"
    /\ \E ok \in BOOLEAN :
          Return(r, <<StoreCall("All", ok, "")>>,
                 Layouts(reqs[r].query.app, reqs[r].query.measurement,
                         StoreAll(store), ok))
    /\ UNCHANGED <<store, lastUpdate, Others>>

NotFound(id) == RespError(404, "ID " \o id \o " not found")

LayoutsID(r) ==
    /\ reqs[r].pc = "get"
    /\ \E ok \in GetOutcomes(store, reqs[r].id) :
          Return(r, <<StoreCall("Get", ok, reqs[r].id)>>,
                 IF ok THEN RespJSON(200, newLayoutResponse(store[reqs[r].id]))
                 ELSE NotFound(reqs[r].id))
    /\ UNCHANGED <<store, lastUpdate, Others>>

\* Variant: the error of Delete is dropped.
RemoveLayout_IgnoreErr(r) ==
    /\ reqs[r].pc = "remove"
    /\ LET layout == [ZeroLayout EXCEPT !.ID = reqs[r].id]
       IN  \E ok \in BOOLEAN :
              /\ store' = IF ok THEN StoreDelete(store, layout.ID) ELSE store
              /\ lastUpdate' = IF ok THEN [lastUpdate EXCEPT ![layout.ID] = "none"]
                               ELSE lastUpdate
              /\ Return(r, <<StoreCall("Delete", ok, layout)>>, RespNoContent)
    /\ UNCHANGED Others

RemoveLayout(r) ==
    /\ reqs[r].pc = "remove"
    /\ LET layout == [ZeroLayout EXCEPT !.ID = reqs[r].id]
       IN  \E ok \in BOOLEAN :
              /\ store' = IF ok THEN StoreDelete(store, layout.ID) ELSE store
              /\ lastUpdate' = IF ok THEN [lastUpdate EXCEPT ![layout.ID] = "none"]
                               ELSE lastUpdate
              /\ Return(r, <<StoreCall("Delete", ok, layout)>>,
                        IF ok THEN RespNoContent ELSE RespUnknownError("Delete"))
    /\ UNCHANGED Others

-----------------------------------------------------------------------------
(* UpdateLayout, layout.go:168-204 *)

\* Variant: the body is decoded before the existence check.
UpdateLayoutGet_DecodeFirst(r) ==
    /\ reqs[r].pc = "upd_get"
    /\ IF ~reqs[r].body.json
       THEN Return(r, <<>>, RespInvalidJSON)
       ELSE \E ok \in GetOutcomes(store, reqs[r].id) :
               IF ~ok
               THEN Return(r, <<StoreCall("Get", FALSE, reqs[r].id)>>, NotFound(reqs[r].id))
               ELSE reqs' = [reqs EXCEPT
                       ![r].pc = "upd_org",
                       ![r].calls = Append(@, StoreCall("Get", TRUE, reqs[r].id))]
    /\ UNCHANGED <<store, lastUpdate, Others>>

\* Lines 169-176: the existence check.
UpdateLayoutGet(r) ==
    /\ reqs[r].pc = "upd_get"
    /\ \E ok \in GetOutcomes(store, reqs[r].id) :
          IF ~ok
          THEN Return(r, <<StoreCall("Get", FALSE, reqs[r].id)>>, NotFound(reqs[r].id))
          ELSE reqs' = [reqs EXCEPT
                  ![r].pc = "upd_org",
                  ![r].calls = Append(@, StoreCall("Get", TRUE, reqs[r].id))]
    /\ UNCHANGED <<store, lastUpdate, Others>>

\* Variant: the ID of the body is kept.
UpdateReq_KeepBodyID(decoded, id) == decoded

\* req.ID = id (line 183).
UpdateReq(decoded, id) == [decoded EXCEPT !.ID = id]

\* Lines 178-189: decode the body, force its ID, look up the default organization.
UpdateLayoutDecode(r) ==
    /\ reqs[r].pc = "upd_org"
    /\ IF ~reqs[r].body.json
       THEN Return(r, <<>>, RespInvalidJSON)
       ELSE \E ok \in BOOLEAN, org \in OrgIDs :
               IF ~ok
               THEN reqs' = [reqs EXCEPT
                       ![r].pc = "done",
                       ![r].req = UpdateReq(reqs[r].body.layout, reqs[r].id),
                       ![r].calls = Append(@, StoreCall("DefaultOrganization", FALSE, "")),
                       ![r].resp = Append(@, RespUnknownError("DefaultOrganization"))]
               ELSE reqs' = [reqs EXCEPT
                       ![r].pc = "upd_write",
                       ![r].req = UpdateReq(reqs[r].body.layout, reqs[r].id),
                       ![r].org = FormatInt(org),
                       ![r].calls = Append(@, StoreCall("DefaultOrganization", TRUE, ""))]
    /\ UNCHANGED <<store, lastUpdate, Others>>

\* Variant: the layout found by the existence check is written only if it is
\* still stored.
UpdateLayoutWrite_CheckStored(r) ==
    /\ reqs[r].pc = "upd_write"
    /\ LET err == ValidLayoutRequest(reqs[r].req, reqs[r].org)
           req == reqs[r].req
       IN  IF err # NoErr
           THEN /\ Return(r, <<>>, RespInvalidData(err))
                /\ UNCHANGED <<store, lastUpdate>>
           ELSE IF lastUpdate[req.ID] # "none"
           THEN /\ Return(r, <<>>, RespError(500, "Error updating layout ID " \o reqs[r].id))
                /\ UNCHANGED <<store, lastUpdate>>
           ELSE \E ok \in BOOLEAN :
                   IF ~ok
                   THEN /\ Return(r, <<StoreCall("Update", FALSE, req)>>,
                                  RespError(500, "Error updating layout ID " \o reqs[r].id))
                        /\ UNCHANGED <<store, lastUpdate>>
                   ELSE /\ store' = StorePut(store, req)
                        /\ lastUpdate' = [i \in StoreIDs |->
                                             IF i = req.ID THEN r ELSE lastUpdate[i]]
                        /\ Return(r, <<StoreCall("Update", TRUE, req)>>,
                                  RespJSON(200, newLayoutResponse(req)))
    /\ UNCHANGED Others

\* Lines 191-203: validate, replace the stored layout, answer 200 with req.
UpdateLayoutWrite(r) ==
    /\ reqs[r].pc = "upd_write"
    /\ LET err == ValidLayoutRequest(reqs[r].req, reqs[r].org)
           req == reqs[r].req
       IN  IF err # NoErr
           THEN /\ Return(r, <<>>, RespInvalidData(err))
                /\ UNCHANGED <<store, lastUpdate>>
           ELSE \E ok \in BOOLEAN :
                   IF ~ok
                   THEN /\ Return(r, <<StoreCall("Update", FALSE, req)>>,
                                  RespError(500, "Error updating layout ID " \o reqs[r].id))
                        /\ UNCHANGED <<store, lastUpdate>>
                   ELSE /\ store' = StorePut(store, req)
                        /\ lastUpdate' = [i \in StoreIDs |->
                                             IF i = req.ID THEN r ELSE lastUpdate[i]]
                        /\ Return(r, <<StoreCall("Update", TRUE, req)>>,
                                  RespJSON(200, newLayoutResponse(req)))
    /\ UNCHANGED Others

-----------------------------------------------------------------------------
(* The specifications *)

InitValid ==
    /\ MainIdle /\ RespIdle /\ ListIdle
    /\ vArgs \in [l : ValidLayouts(MaxCells), defaultOrgID : DefaultOrgIDs]
    /\ vRet = [done |-> FALSE]

NextValid == Validate

SpecValid == InitValid /\ [][NextValid]_vars

InitResp ==
    /\ MainIdle /\ ValidIdle /\ ListIdle
    /\ rArg \in RespLayouts(RespMaxCells)
    /\ rRet = [done |-> FALSE]

NextResp == BuildResponse

SpecResp == InitResp /\ [][NextResp]_vars

InitList ==
    /\ MainIdle /\ ValidIdle /\ RespIdle
    /\ lArgs \in [app : SeqsUpTo(ListTerms, MaxTerms),
                  measurement : SeqsUpTo(ListTerms, MaxTerms),
                  layouts : SeqsUpTo(ListLayouts, MaxColl)]
    /\ lRet = [done |-> FALSE]

NextList == ListRequest

SpecList == InitList /\ [][NextList]_vars

Init ==
    /\ ValidIdle /\ RespIdle /\ ListIdle
    /\ store \in InitStores
    /\ reqs = [r \in Reqs |-> IdleReq]
    /\ lastUpdate = [i \in StoreIDs |-> "none"]

Next ==
    \E r \in Reqs :
        \/ Receive(r)
        \/ NewLayoutDecode(r)
        \/ NewLayoutAdd(r)
        \/ LayoutsAll(r)
        \/ LayoutsID(r)
        \/ RemoveLayout(r)
        \/ UpdateLayoutGet(r)
        \/ UpdateLayoutDecode(r)
        \/ UpdateLayoutWrite(r)

Spec == Init /\ [][Next]_vars

-----------------------------------------------------------------------------
(* Properties of ValidLayoutRequest (SpecValid) *)

ZeroDim(c) == c.W = 0 \/ c.H = 0
EmptyCommand(c) == \E j \in 1..Len(c.Queries) : c.Queries[j].Command = ""
MissingRequired(l) == l.Application = "" \/ l.Measurement = "" \/ Len(l.Cells) = 0

\* C1: ValidLayoutRequest returns an error if and only if Application,
\* Measurement or Cells is empty, or some cell has W == 0 or H == 0, or some
\* query has an empty Command; Organization and the default organization ID
\* (both range over their whole sets in the reachable states) play no part,
\* and a cell without queries is accepted.
C1_ErrorIff ==
    vRet.done =>
        LET l == vArgs.l
        IN  (vRet.err # NoErr) <=>
                \/ MissingRequired(l)
                \/ \E i \in 1..Len(l.Cells) : ZeroDim(l.Cells[i])
                \/ \E i \in 1..Len(l.Cells) : EmptyCommand(l.Cells[i])

C1_Witness ==
    /\ vRet.done
    /\ vRet.err = NoErr
    /\ vArgs.l.Organization = ""
    /\ \E i \in 1..Len(vArgs.l.Cells) : Len(vArgs.l.Cells[i].Queries) = 0

\* C8 as stated: after rule 1, a zero W or H in any cell wins over an empty
\* Command in any cell, also an earlier one.
C8_WHBeforeAnyQuery ==
    vRet.done =>
        LET l == vArgs.l
        IN  IF MissingRequired(l) THEN vRet.err = ErrRequired
            ELSE IF \E i \in 1..Len(l.Cells) : ZeroDim(l.Cells[i]) THEN vRet.err = ErrWH
            ELSE vRet.err \in {ErrQuery, NoErr}

\* C8 amended: after rule 1, the first cell in order that has a zero W or H
\* or a query with an empty Command decides the error: "w, and h required" if
\* that cell has a zero W or H, "query required" otherwise.
C8_FirstOffendingCell ==
    vRet.done =>
        LET l == vArgs.l
            bad == {i \in 1..Len(l.Cells) : ZeroDim(l.Cells[i]) \/ EmptyCommand(l.Cells[i])}
        IN  IF MissingRequired(l) THEN vRet.err = ErrRequired
            ELSE IF bad = {} THEN vRet.err = NoErr
            ELSE LET first == CHOOSE i \in bad : \A j \in bad : i <= j
                 IN  vRet.err = IF ZeroDim(l.Cells[first]) THEN ErrWH ELSE ErrQuery

C8_Witness ==
    /\ vRet.done
    /\ Len(vArgs.l.Cells) >= 2
    /\ ~ZeroDim(vArgs.l.Cells[1]) /\ EmptyCommand(vArgs.l.Cells[1])
    /\ ZeroDim(vArgs.l.Cells[2])
    /\ vRet.err = ErrQuery

-----------------------------------------------------------------------------
(* Properties of newLayoutResponse (SpecResp) *)

WellKnownAxes == {"x", "y", "y2"}

\* C4 as stated: after newLayoutResponse every cell's axis map has exactly
\* the keys x, y, y2; a missing key maps to empty bounds and a present one
\* keeps its bounds.
C4_ExactlyXYY2 ==
    rRet.done =>
        \A i \in 1..Len(rArg.Cells) :
            LET in == rArg.Cells[i].Axes.kv
                out == rRet.res.Layout.Cells[i].Axes.kv
            IN  /\ DOMAIN out = WellKnownAxes
                /\ \A k \in WellKnownAxes :
                      out[k] = IF k \in DOMAIN in THEN in[k] ELSE EmptyAxis

\* C4 amended: after newLayoutResponse every cell's axis map has the keys
\* x, y, y2 and the keys it had on input, no others; a missing x, y or y2
\* maps to empty bounds and every key present on input keeps its bounds.
C4_AtLeastXYY2 ==
    rRet.done =>
        /\ Len(rRet.res.Layout.Cells) = Len(rArg.Cells)
        /\ \A i \in 1..Len(rArg.Cells) :
              LET in == rArg.Cells[i].Axes.kv
                  out == rRet.res.Layout.Cells[i].Axes.kv
              IN  /\ ~rRet.res.Layout.Cells[i].Axes.isnil
                  /\ DOMAIN out = WellKnownAxes \cup DOMAIN in
                  /\ \A k \in DOMAIN out :
                        out[k] = IF k \in DOMAIN in THEN in[k] ELSE EmptyAxis

C4_Witness ==
    /\ rRet.done
    /\ Len(rArg.Cells) = 2
    /\ rArg.Cells[1].Axes.isnil
    /\ DOMAIN rArg.Cells[2].Axes.kv = {"y", "z"}
    /\ rArg.Cells[2].Axes.kv["y"] # EmptyAxis
    /\ DOMAIN rRet.res.Layout.Cells[2].Axes.kv = {"x", "y", "y2", "z"}

-----------------------------------------------------------------------------
(* Properties of Layouts (SpecList) *)

Ident(l) == <<l.ID, l.Application, l.Measurement, l.Organization, Len(l.Cells)>>
Emitted == [i \in 1..Len(lRet.resp.body.Layouts) |-> Ident(lRet.resp.body.Layouts[i].Layout)]
Collection == [i \in 1..Len(lArgs.layouts) |-> Ident(lArgs.layouts[i])]
Terms ==
    {lArgs.app[i] : i \in 1..Len(lArgs.app)}
        \cup {lArgs.measurement[i] : i \in 1..Len(lArgs.measurement)}

\* s from element i on is a subsequence of t from element j on.
RECURSIVE IsSubseq(_, _, _, _)
IsSubseq(s, i, t, j) ==
    IF i > Len(s) THEN TRUE
    ELSE IF j > Len(t) THEN FALSE
    ELSE IF s[i] = t[j] THEN IsSubseq(s, i + 1, t, j + 1)
    ELSE IsSubseq(s, i, t, j + 1)

\* C2: the list operation never emits two layouts with the same
\* (Measurement, ID) pair, also when the collection of All has duplicates.
C2_NoDuplicateEmitted ==
    (lRet.done /\ lRet.ok) =>
        LET out == lRet.resp.body.Layouts
        IN  \A i, j \in 1..Len(out) :
                (i # j) => ~(/\ out[i].Layout.Measurement = out[j].Layout.Measurement
                             /\ out[i].Layout.ID = out[j].Layout.ID)

\* C3: with no filter term every layout of the collection is returned in
\* the collection's order; with terms, every returned layout has its
\* Application or its Measurement among the merged terms, and the returned
\* layouts are a subsequence of the collection.
C3_FilterKeepsOrder ==
    (lRet.done /\ lRet.ok) =>
        /\ lRet.resp.call = "encodeJSON" /\ lRet.resp.status = 200
        /\ (Terms = {}) => Emitted = Collection
        /\ (Terms # {}) =>
              \A i \in 1..Len(lRet.resp.body.Layouts) :
                  LET l == lRet.resp.body.Layouts[i].Layout
                  IN  l.Application \in Terms \/ l.Measurement \in Terms
        /\ IsSubseq(Emitted, 1, Collection, 1)

C3_Witness ==
    /\ lRet.done /\ lRet.ok
    /\ lArgs.app = <<"m">> /\ lArgs.measurement = <<>>
    /\ Len(lArgs.layouts) = 3
    /\ lArgs.layouts[1].Measurement = "m" /\ lArgs.layouts[1].Application = "b"
    /\ lArgs.layouts[2].Measurement = "m1" /\ lArgs.layouts[2].Application = "b"
    /\ lArgs.layouts[3].Measurement = "m" /\ lArgs.layouts[3].ID # lArgs.layouts[1].ID
    /\ Len(lRet.resp.body.Layouts) = 2

-----------------------------------------------------------------------------
(* Properties of the handlers (Spec) *)

IsWrite(c) == c.call \in {"Add", "Update", "Delete"}
IsSuccess(resp) ==
    /\ resp.call \in {"encodeJSON", "WriteHeader"}
    /\ resp.status \in {200, 201, 204}
CallMade(r, name, ok) ==
    \E k \in 1..Len(reqs[r].calls) : reqs[r].calls[k].call = name /\ reqs[r].calls[k].ok = ok

\* C5: the layout UpdateLayout passes to the store's Update has the ID of the
\* request path, whatever ID the body carried, and the layout of the 200
\* response and its self link use the path ID too.
C5_UpdateUsesPathID ==
    \A r \in Reqs :
        (reqs[r].op = "UpdateLayout") =>
            /\ \A k \in 1..Len(reqs[r].calls) :
                  (reqs[r].calls[k].call = "Update") => reqs[r].calls[k].arg.ID = reqs[r].id
            /\ \A k \in 1..Len(reqs[r].resp) :
                  (reqs[r].resp[k].call = "encodeJSON") =>
                      /\ reqs[r].resp[k].status = 200
                      /\ reqs[r].resp[k].body.Layout.ID = reqs[r].id
                      /\ reqs[r].resp[k].body.Link.Href
                            = "/chronograf/v1/layouts/" \o reqs[r].id
                      /\ reqs[r].id \in DOMAIN store
                            => store[reqs[r].id].ID = reqs[r].id

C5_Witness ==
    \E r \in Reqs :
        /\ reqs[r].op = "UpdateLayout" /\ reqs[r].pc = "done"
        /\ reqs[r].id = "1" /\ reqs[r].body.layout.ID = "2"
        /\ CallMade(r, "Update", TRUE)
        /\ reqs[r].resp[1].call = "encodeJSON"

\* C6: an UpdateLayout whose existence check did not succeed ends with the
\* 404 response naming the path ID, and Get is the only store call it made,
\* whatever its body: the existence check is the handler's first step.
C6_MissingIDNoWrite ==
    \A r \in Reqs :
        (reqs[r].op = "UpdateLayout") =>
            /\ (reqs[r].pc \notin {"idle", "upd_get"}) =>
                  (reqs[r].calls # <<>> /\ reqs[r].calls[1].call = "Get")
            /\ (reqs[r].calls # <<>> /\ ~reqs[r].calls[1].ok) =>
                  /\ reqs[r].pc = "done"
                  /\ reqs[r].resp
                        = <<[call |-> "Error", status |-> 404,
                             msg |-> "ID " \o reqs[r].id \o " not found"]>>
                  /\ Len(reqs[r].calls) = 1

C6_Witness ==
    \E r \in Reqs :
        /\ reqs[r].op = "UpdateLayout" /\ reqs[r].pc = "done"
        /\ ~reqs[r].body.json
        /\ reqs[r].id \notin DOMAIN store
        /\ reqs[r].resp[1].status = 404

\* C7: in NewLayout and UpdateLayout a request makes at most one store write,
\* and makes it only with the body decoded, the default organization found
\* and the written layout accepted by ValidLayoutRequest; a step of such a
\* request that makes no successful write leaves the stored layouts as they are.
C7_WriteOnlyAfterValidation ==
    [][\A r \in Reqs :
          (reqs'[r] # reqs[r] /\ reqs'[r].op \in {"NewLayout", "UpdateLayout"}) =>
              LET old == reqs[r].calls
                  new == reqs'[r].calls
                  added == {k \in (Len(old) + 1)..Len(new) : IsWrite(new[k])}
              IN  /\ Cardinality({k \in 1..Len(new) : IsWrite(new[k])}) <= 1
                  /\ \A k \in added :
                        /\ reqs[r].body.json
                        /\ CallMade(r, "DefaultOrganization", TRUE)
                        /\ ~MissingRequired(new[k].arg)
                        /\ \A i \in 1..Len(new[k].arg.Cells) :
                              ~ZeroDim(new[k].arg.Cells[i]) /\ ~EmptyCommand(new[k].arg.Cells[i])
                  /\ (~\E k \in added : new[k].ok) => store' = store
    ]_vars

C7_Witness ==
    \E r1, r2 \in Reqs :
        /\ reqs[r1].op = "NewLayout" /\ reqs[r1].pc = "done"
        /\ reqs[r1].resp[1].call = "invalidData"
        /\ reqs[r2].op = "UpdateLayout" /\ reqs[r2].pc = "done"
        /\ CallMade(r2, "Update", TRUE)

\* C9: every request answers exactly once, when it is done; a failed store
\* call is the request's last store call and is answered with an error:
\* create never with 201, list with 500, get-by-ID with 404, update with 404
\* for Get and 500 for Update, delete never with 204.
C9_StoreErrorIsTerminal ==
    \A r \in Reqs :
        /\ Len(reqs[r].resp) = IF reqs[r].pc = "done" THEN 1 ELSE 0
        /\ \A k \in 1..Len(reqs[r].calls) :
              (~reqs[r].calls[k].ok) =>
                  /\ k = Len(reqs[r].calls)
                  /\ reqs[r].pc = "done"
                  /\ ~IsSuccess(reqs[r].resp[1])
                  /\ LET c == reqs[r].calls[k].call
                         resp == reqs[r].resp[1]
                     IN  CASE c = "All" -> resp.call = "Error" /\ resp.status = 500
                           [] c = "Get" -> resp.call = "Error" /\ resp.status = 404
                           [] c = "Update" -> resp.call = "Error" /\ resp.status = 500
                           [] OTHER -> resp.call = "unknownErrorWithMessage"

C9_Witness ==
    \E r1, r2 \in Reqs :
        /\ reqs[r1].op = "RemoveLayout" /\ reqs[r1].pc = "done"
        /\ CallMade(r1, "Delete", FALSE)
        /\ reqs[r2].op = "UpdateLayout" /\ reqs[r2].pc = "done"
        /\ CallMade(r2, "Update", FALSE)

\* The layout of a response is the body with the path ID, axes aside.
OwnBody(r, l) ==
    LET b == reqs[r].body.layout
    IN  /\ l.ID = reqs[r].id
        /\ l.Application = b.Application /\ l.Measurement = b.Measurement
        /\ l.Organization = b.Organization
        /\ Len(l.Cells) = Len(b.Cells)
        /\ \A i \in 1..Len(b.Cells) :
              /\ l.Cells[i].W = b.Cells[i].W /\ l.Cells[i].H = b.Cells[i].H
              /\ l.Cells[i].Queries = b.Cells[i].Queries

AllCallsOK(r) == \A k \in 1..Len(reqs[r].calls) : reqs[r].calls[k].ok

ValidBody(r) ==
    /\ reqs[r].body.json
    /\ ~MissingRequired(reqs[r].body.layout)
    /\ \A i \in 1..Len(reqs[r].body.layout.Cells) :
          /\ ~ZeroDim(reqs[r].body.layout.Cells[i])
          /\ ~EmptyCommand(reqs[r].body.layout.Cells[i])

\* C10: when two UpdateLayout requests for the same ID with valid bodies are
\* done and none of their store calls failed, both answered 200 with their own
\* body and the layout stored under the ID is the body of the request whose
\* Update came last; and an UpdateLayout with a valid body whose store calls
\* all succeed has made its Update call, whatever happened to the ID after its
\* existence check.
C10_LastUpdateWins ==
    /\ \A r \in Reqs :
          (/\ reqs[r].op = "UpdateLayout" /\ reqs[r].pc = "done"
           /\ ValidBody(r) /\ AllCallsOK(r)) =>
              /\ CallMade(r, "Update", TRUE)
              /\ reqs[r].resp[1].call = "encodeJSON" /\ reqs[r].resp[1].status = 200
              /\ OwnBody(r, reqs[r].resp[1].body.Layout)
    /\ \A r1, r2 \in Reqs :
          (/\ r1 # r2
           /\ reqs[r1].op = "UpdateLayout" /\ reqs[r2].op = "UpdateLayout"
           /\ reqs[r1].id = reqs[r2].id
           /\ reqs[r1].pc = "done" /\ reqs[r2].pc = "done"
           /\ ValidBody(r1) /\ ValidBody(r2)
           /\ AllCallsOK(r1) /\ AllCallsOK(r2)) =>
              /\ lastUpdate[reqs[r1].id] \in {r1, r2}
              /\ reqs[r1].id \in DOMAIN store
              /\ OwnBody(lastUpdate[reqs[r1].id], store[reqs[r1].id])
              /\ store[reqs[r1].id].Cells
                    = reqs[lastUpdate[reqs[r1].id]].body.layout.Cells

C10_Witness ==
    \E r1, r2 \in Reqs :
        /\ r1 # r2
        /\ reqs[r1].op = "UpdateLayout" /\ reqs[r2].op = "UpdateLayout"
        /\ reqs[r1].id = "1" /\ reqs[r2].id = "1"
        /\ reqs[r1].pc = "done" /\ reqs[r2].pc = "done"
        /\ reqs[r1].body.layout = BodyA /\ reqs[r2].body.layout = BodyB
        /\ reqs[r1].body.json /\ reqs[r2].body.json
        /\ AllCallsOK(r1) /\ AllCallsOK(r2)
        /\ lastUpdate["1"] = r1
        /\ store["1"].Application = "app1"
====
